---- MODULE Spec2Model ----
(***************************************************************************)
(* Time-series helpers of bmc_functions/time_series_modeling.py:           *)
(* ts_split, create_best_model, forecast_and_ci, ts_modeling_workflow and  *)
(* make_dict.                                                              *)
(*                                                                         *)
(* A series is a sequence of observations (the index is the position).     *)
(* A threshold is held in hundredths (85 stands for 0.85); for the         *)
(* thresholds used here round(n * threshold) on Python floats agrees with  *)
(* the exact product rounded half to even.                                 *)
(* pandas / statsmodels / pmdarima are libraries: what they return is a    *)
(* nondeterministic choice among the results their contract allows.        *)
(***************************************************************************)
EXTENDS Integers, Sequences, FiniteSets, TLC

VARIABLES
    pc,            \* "idle", the workflow stage about to run, "done" or "aborted"
    fn,            \* the function the notebook called
    series,        \* dataframe / zipcode_val
    threshold,     \* in hundredths
    show_vis,
    m,
    n_yrs_future,  \* optional integer
    test_data,     \* optional series (argument of forecast_and_ci)
    train,
    test,
    steps,         \* steps asked of model.get_forecast (optional integer)
    forecast_df,   \* frame returned by forecast_and_ci
    roi_df,        \* rows of the ROI frame
    outcome,       \* "none", "returned", "raised"
    error,         \* exception that left the call, "" when none
    trace,         \* stages of the workflow that have started, in order
    locals,        \* the other local variables of ts_modeling_workflow
    result         \* what ts_modeling_workflow / make_dict returned

vars == <<pc, fn, series, threshold, show_vis, m, n_yrs_future, test_data,
          train, test, steps, forecast_df, roi_df, outcome, error, trace,
          locals, result>>

----------------------------------------------------------------------------
(* Bounds of the model *)

MaxLen == 3        \* longest enumerated series
MaxYears == 2      \* largest n_yrs_future
MaxBase == 2       \* largest first point forecast a fitted model gives
MaxWidth == 1      \* largest half-width of a confidence interval

Values == {1, 2}
Thresholds == {-25, 0, 25, 50, 85, 100, 150}
Ms == {4, 12}

(* Program constants *)
DefaultThreshold == 85     \* threshold = .85
DefaultYrsFuture == 2      \* n_yrs_future = 2
MonthsPerYear == 12        \* steps = 12 * n_yrs_future

----------------------------------------------------------------------------
(* Optional values (Python None) *)

None == [none |-> TRUE, val |-> 0]
Some(x) == [none |-> FALSE, val |-> x]

NoSeries == [none |-> TRUE, val |-> <<>>]
NoFrame == [columns |-> <<>>, rows |-> <<>>]

Min(a, b) == IF a < b THEN a ELSE b
Max(a, b) == IF a > b THEN a ELSE b
Abs(a) == IF a < 0 THEN -a ELSE a

(* The monthly series of the end-to-end scenario: 120 observations *)
Ramp(n) == [i \in 1..n |-> i]

SeqsUpTo(n) == UNION {[1..k -> Values] : k \in 0..n}
SeriesSet == SeqsUpTo(MaxLen) \cup {Ramp(120)}

----------------------------------------------------------------------------
(* ts_split *)

\* Python round(): nearest integer, a tie goes to the even one (num / den, den > 0)
RoundHalfOdd(num, den) ==
    LET q == num \div den
        r == num % den
    IN  IF 2 * r < den THEN q
        ELSE IF 2 * r > den THEN q + 1
        ELSE IF q % 2 = 0 THEN q + 1 ELSE q

RoundHalfEven(num, den) ==
    LET q == num \div den
        r == num % den
    IN  IF 2 * r < den THEN q
        ELSE IF 2 * r > den THEN q + 1
        ELSE IF q % 2 = 0 THEN q ELSE q + 1

\* tts_cutoff = round(dataframe.shape[0]*threshold)
TtsCutoff(dataframe, thr) == RoundHalfEven(Len(dataframe) * thr, 100)

\* position a slice bound c denotes in a sequence of length n
SliceBound(c, n) == IF c < 0 THEN Max(0, n + c) ELSE Min(c, n)

\* dataframe.iloc[:c]
IlocHead(s, c) == SubSeq(s, 1, SliceBound(c, Len(s)))

\* dataframe.iloc[c:]
IlocTailSkip(s, c) == SubSeq(s, SliceBound(c, Len(s)) + 2, Len(s))

IlocTail(s, c) == SubSeq(s, SliceBound(c, Len(s)) + 1, Len(s))

\* the plot of the split: the errors it can raise ("" when it draws)
SplitVisErrors(tr, te) ==
    IF tr = <<>> THEN {"TypeError", "IndexError"}
    ELSE IF te = <<>> THEN {"", "TypeError"}
    ELSE {""}

\* the outcomes of ts_split(dataframe, threshold, show_vis)
TsSplit(dataframe, thr, vis) ==
    LET cut == TtsCutoff(dataframe, thr)
        tr == IlocHead(dataframe, cut)
        te == IlocTail(dataframe, cut)
        errs == IF vis THEN SplitVisErrors(tr, te) ELSE {""}
    IN  {IF e = ""
         THEN [status |-> "returned", error |-> "", train |-> tr, test |-> te]
         ELSE [status |-> "raised", error |-> e, train |-> <<>>, test |-> <<>>]
         : e \in errs}

----------------------------------------------------------------------------
(* create_best_model / auto_arima_model *)

\* parameters of def auto_arima_model(...)
AutoArimaModelParams ==
    {"timeseries_dataset", "m", "start_p", "max_p", "start_q", "max_q",
     "start_P", "start_Q", "max_P", "max_Q"}

\* arguments create_best_model passes in its call of auto_arima_model
AutoArimaModelCallArgs ==
    {"timeseries_dataset", "m", "start_p", "max_p", "start_q", "max_q",
     "start_P", "start_Q", "max_P", "max_Q", "n_d", "n_D", "error_action"}

\* a call binds its arguments only if the function has a parameter for each
UnexpectedKwargs == AutoArimaModelCallArgs \ AutoArimaModelParams

\* ndiffs / nsdiffs (pmdarima): compute d, D or reject the data
DiffTestErrors(ts, mm) == {"", "ValueError"}

\* orders the search and the fit can give: (p, d, q) and (P, D, Q, m)
ModelOrders(mm) == {[order |-> <<p, 0, 0>>, seasonal_order |-> <<0, 0, 0, mm>>] : p \in 0..1}

NoOrder == [order |-> <<>>, seasonal_order |-> <<>>]

\* tsa.SARIMAX(endog, order=..., seasonal_order=..., enforce_invertibility=False).fit()
Sarimax(endog, o) ==
    [endog |-> endog, order |-> o.order, seasonal_order |-> o.seasonal_order]

NoModel == Sarimax(<<>>, NoOrder)

\* SARIMAX(...).fit() (statsmodels): fits, or fails on the data
FitErrors(endog) == IF endog = <<>> THEN {"ValueError"} ELSE {"", "ValueError"}

\* create_best_model once its call of auto_arima_model has bound its arguments:
\* one order search (pmd.auto_arima) on the dataset, then the SARIMAX fit with
\* the order found
CreateBestModelFit(ts, mm) ==
    UNION {{IF e = ""
            THEN [status |-> "returned", error |-> "", model |-> o,
                  best_model |-> Sarimax(ts, o), searched |-> <<ts>>]
            ELSE [status |-> "raised", error |-> e, model |-> NoOrder,
                  best_model |-> NoModel, searched |-> <<ts>>]
            : e \in FitErrors(ts)}
           : o \in ModelOrders(mm)}

\* the outcomes of create_best_model(timeseries_dataset, m): the differencing
\* tests, then the call of auto_arima_model, then the SARIMAX fit
CreateBestModel(ts, mm) ==
    UNION {IF e # ""
           THEN {[status |-> "raised", error |-> e, model |-> NoOrder,
                  best_model |-> NoModel, searched |-> <<>>]}
           ELSE IF UnexpectedKwargs # {}
           THEN {[status |-> "raised", error |-> "TypeError", model |-> NoOrder,
                  best_model |-> NoModel, searched |-> <<>>]}
           ELSE CreateBestModelFit(ts, mm)
           : e \in DiffTestErrors(ts, mm)}

----------------------------------------------------------------------------
(* forecast_and_ci *)

\* a fitted model's forecast of n steps: the mean starts at base and moves by
\* slope a step, the interval is the mean -/+ width
ForecastObject(base, slope, width, n) ==
    [conf_int |-> [i \in 1..n |-> <<base + slope * (i - 1) - width,
                                    base + slope * (i - 1) + width>>],
     predicted_mean |-> [i \in 1..n |-> base + slope * (i - 1)]]

\* model.get_forecast(steps=n) (statsmodels): n forecast steps, or an error
\* when no step is asked for
GetForecast(n) ==
    IF n < 0 THEN {[error |-> "ValueError", fc |-> ForecastObject(0, 0, 0, 0)]}
    ELSE {[error |-> "", fc |-> ForecastObject(b, s, w, n)] :
              b \in -1..MaxBase, s \in -1..1, w \in 0..MaxWidth}
         \cup (IF n = 0
               THEN {[error |-> "ValueError", fc |-> ForecastObject(0, 0, 0, 0)]}
               ELSE {})

\* the steps forecast_and_ci asks for
HorizonYearsFirst(td, yrs) ==
    IF ~yrs.none THEN Some(MonthsPerYear * yrs.val)
    ELSE IF ~td.none THEN Some(Len(td.val))
    ELSE None

Horizon(td, yrs) ==
    IF td.none
    THEN IF yrs.none THEN None ELSE Some(MonthsPerYear * yrs.val)
    ELSE Some(Len(td.val))

\* forecast_df = forecast.conf_int(); columns renamed; 'Forecast' added last
ForecastFrame(fc) ==
    [columns |-> <<"Lower CI", "Upper CI">> \o <<"Forecast">>,
     rows |-> [i \in 1..Len(fc.conf_int) |->
                  fc.conf_int[i] \o <<fc.predicted_mean[i]>>]]

\* the outcomes of forecast_and_ci(model, test_data, n_yrs_future)
ForecastAndCi(td, yrs) ==
    LET h == Horizon(td, yrs)
    IN  IF h.none
        THEN {[status |-> "raised", error |-> "TypeError", steps |-> None,
               df |-> NoFrame]}
        ELSE {IF g.error = ""
              THEN [status |-> "returned", error |-> "", steps |-> h,
                    df |-> ForecastFrame(g.fc)]
              ELSE [status |-> "raised", error |-> g.error, steps |-> h,
                    df |-> NoFrame]
              : g \in GetForecast(h.val)}

----------------------------------------------------------------------------
(* ROI of ts_modeling_workflow *)

RECURSIVE Gcd(_, _)
Gcd(a, b) == IF b = 0 THEN a ELSE Gcd(b, a % b)

Sign(a) == IF a < 0 THEN -1 ELSE IF a > 0 THEN 1 ELSE 0

\* the value of n / d as floating point gives it: a fraction in lowest terms
\* with a positive denominator; <<1, 0>>, <<-1, 0>> are inf, -inf and <<0, 0>> nan
Rat(n, d) ==
    IF d = 0 THEN <<Sign(n), 0>>
    ELSE LET g == Gcd(Abs(n), Abs(d))
         IN  <<(Sign(d) * n) \div g, Abs(d) \div g>>

\* investment_cost = forecast_full.iloc[0,2]
InvestmentCostFirstColumn(df) == df.rows[1][1]

InvestmentCost(df) == df.rows[1][3]

\* roi_df = (forecast_full - investment_cost)/investment_cost*100
RoiOwnColumn(df) ==
    [i \in 1..Len(df.rows) |->
        [j \in 1..3 |-> Rat((df.rows[i][j] - df.rows[1][j]) * 100, df.rows[1][j])]]

RoiDf(df) ==
    LET cost == InvestmentCost(df)
    IN  [i \in 1..Len(df.rows) |->
            [j \in 1..3 |-> Rat((df.rows[i][j] - cost) * 100, cost)]]

\* errors of the two ROI lines
RoiError(df) == IF df.rows = <<>> THEN "IndexError" ELSE ""

----------------------------------------------------------------------------
(* The notebook: one call of a function of the module *)

\* the functions that run the workflow
Workflows == {"ts_modeling_workflow", "make_dict"}

Stages == <<"SPLIT", "SELECT_AND_FIT", "FORECAST_VALIDATE", "REFIT",
            "FORECAST_FUTURE", "ROI", "PACKAGE">>

\* model_performance(ts_model): (ts_model.summary(), the diagnostics figure)
Summary(model) == [summary_of |-> model]
Diagnostics(model) == [diagnostics_of |-> model]

NoFigure == [plot |-> "", of |-> ""]

\* nothing assigned yet
NoLocals ==
    [searched |-> <<>>,
     auto_model_train |-> NoOrder,
     best_model_train |-> NoModel,
     summary_train |-> Summary(NoModel),
     diag_train |-> Diagnostics(NoModel),
     forecast_train_rows |-> 0,
     training_frcst |-> NoFigure,
     best_model_full |-> NoModel,
     summary_full |-> Summary(NoModel),
     diag_full |-> Diagnostics(NoModel),
     final_frcst |-> NoFigure,
     roi_final |-> <<>>]

NoResult == [kind |-> "none"]

Init ==
    /\ pc = "idle"
    /\ fn = "none"
    /\ series = <<>>
    /\ threshold = DefaultThreshold
    /\ show_vis = FALSE
    /\ m = MonthsPerYear
    /\ n_yrs_future = None
    /\ test_data = NoSeries
    /\ train = <<>>
    /\ test = <<>>
    /\ steps = None
    /\ forecast_df = NoFrame
    /\ roi_df = <<>>
    /\ outcome = "none"
    /\ error = ""
    /\ trace = <<>>
    /\ locals = NoLocals
    /\ result = NoResult

\* train, test = ts_split(dataframe, threshold, show_vis)
CallTsSplit ==
    /\ pc = "idle"
    /\ \E s \in SeriesSet, t \in Thresholds, v \in BOOLEAN :
         \E r \in TsSplit(s, t, v) :
            /\ fn' = "ts_split"
            /\ series' = s
            /\ threshold' = t
            /\ show_vis' = v
            /\ train' = r.train
            /\ test' = r.test
            /\ outcome' = r.status
            /\ error' = r.error
            /\ pc' = "done"
    /\ UNCHANGED <<m, n_yrs_future, test_data, steps, forecast_df, roi_df, trace,
                   locals, result>>

\* forecast_df = forecast_and_ci(model, test_data, n_yrs_future)
CallForecastAndCi ==
    /\ pc = "idle"
    /\ \E td \in {NoSeries} \cup {Some(s) : s \in SeqsUpTo(MaxLen)},
          y \in {None} \cup {Some(k) : k \in 0..MaxYears} :
         \E r \in ForecastAndCi(td, y) :
            /\ fn' = "forecast_and_ci"
            /\ test_data' = td
            /\ n_yrs_future' = y
            /\ steps' = r.steps
            /\ forecast_df' = r.df
            /\ outcome' = r.status
            /\ error' = r.error
            /\ pc' = "done"
    /\ UNCHANGED <<series, threshold, show_vis, m, train, test, roi_df, trace,
                   locals, result>>

\* ts_modeling_workflow(dataframe, zipcode, threshold, m, n_yrs_past, n_yrs_future, show_vis)
CallTsModelingWorkflow ==
    /\ pc = "idle"
    /\ \E s \in SeriesSet, t \in Thresholds, mm \in Ms, y \in 0..MaxYears,
          v \in BOOLEAN :
            /\ fn' = "ts_modeling_workflow"
            /\ series' = s
            /\ threshold' = t
            /\ m' = mm
            /\ n_yrs_future' = Some(y)
            /\ show_vis' = v
    /\ pc' = "SPLIT"
    /\ UNCHANGED <<test_data, train, test, steps, forecast_df, roi_df, outcome,
                   error, trace, locals, result>>

\* make_dict(dataframe, zipcode, m, show_vis): the workflow with its default
\* threshold and n_yrs_future
CallMakeDict ==
    /\ pc = "idle"
    /\ \E s \in SeriesSet, mm \in Ms, v \in BOOLEAN :
            /\ fn' = "make_dict"
            /\ series' = s
            /\ m' = mm
            /\ show_vis' = v
    /\ threshold' = DefaultThreshold
    /\ n_yrs_future' = Some(DefaultYrsFuture)
    /\ pc' = "SPLIT"
    /\ UNCHANGED <<test_data, train, test, steps, forecast_df, roi_df, outcome,
                   error, trace, locals, result>>

\* an exception leaves the stage: nothing catches it in the workflow or in make_dict
RaiseAndRetry(e) ==
    /\ pc' = pc
    /\ outcome' = "raised"
    /\ error' = e

Raise(e) ==
    /\ pc' = "aborted"
    /\ outcome' = "raised"
    /\ error' = e

\* train, test = ts_split(zipcode_val, threshold, show_vis = show_vis)
SplitStageSkipsFit ==
    /\ pc = "SPLIT"
    /\ trace' = Append(trace, "SPLIT")
    /\ \E r \in TsSplit(series, threshold, show_vis) :
         IF r.status = "returned"
         THEN /\ train' = r.train
              /\ test' = r.test
              /\ pc' = "FORECAST_VALIDATE"
              /\ UNCHANGED <<outcome, error>>
         ELSE /\ Raise(r.error)
              /\ UNCHANGED <<train, test>>
    /\ UNCHANGED <<fn, series, threshold, show_vis, m, n_yrs_future, test_data,
                   steps, forecast_df, roi_df, locals, result>>

SplitStage ==
    /\ pc = "SPLIT"
    /\ trace' = Append(trace, "SPLIT")
    /\ \E r \in TsSplit(series, threshold, show_vis) :
         IF r.status = "returned"
         THEN /\ train' = r.train
              /\ test' = r.test
              /\ pc' = "SELECT_AND_FIT"
              /\ UNCHANGED <<outcome, error>>
         ELSE /\ Raise(r.error)
              /\ UNCHANGED <<train, test>>
    /\ UNCHANGED <<fn, series, threshold, show_vis, m, n_yrs_future, test_data,
                   steps, forecast_df, roi_df, locals, result>>

\* auto_model_train, best_model_train = create_best_model(timeseries_dataset = train, m=m)
SelectAndFitStage ==
    /\ pc = "SELECT_AND_FIT"
    /\ trace' = Append(trace, "SELECT_AND_FIT")
    /\ \E r \in CreateBestModel(train, m) :
         /\ locals' = [locals EXCEPT !.searched = locals.searched \o r.searched,
                                     !.auto_model_train = r.model,
                                     !.best_model_train = r.best_model]
         /\ IF r.status = "returned"
            THEN /\ pc' = "FORECAST_VALIDATE"
                 /\ UNCHANGED <<outcome, error>>
            ELSE Raise(r.error)
    /\ UNCHANGED <<fn, series, threshold, show_vis, m, n_yrs_future, test_data,
                   train, test, steps, forecast_df, roi_df, result>>

Next ==
    \/ CallTsSplit
    \/ CallForecastAndCi
    \/ CallTsModelingWorkflow
    \/ CallMakeDict
    \/ SplitStage
    \/ SelectAndFitStage

Spec == Init /\ [][Next]_vars

----------------------------------------------------------------------------
(* The ROI lines of the workflow as a function of the frame forecast_and_ci *)
(* gives for the future horizon. create_best_model lets no run of the       *)
(* workflow come this far, so the lines are applied to every such frame.    *)

RoiInit ==
    /\ pc = "ROI"
    /\ fn = "ts_modeling_workflow"
    /\ series = <<>>
    /\ threshold = DefaultThreshold
    /\ show_vis \in BOOLEAN
    /\ m = MonthsPerYear
    /\ n_yrs_future \in {Some(k) : k \in 0..MaxYears}
    /\ test_data = NoSeries
    /\ train = <<>>
    /\ test = <<>>
    /\ \E r \in ForecastAndCi(NoSeries, n_yrs_future) :
          /\ r.status = "returned"
          /\ steps = r.steps
          /\ forecast_df = r.df
    /\ roi_df = <<>>
    /\ outcome = "none"
    /\ error = ""
    /\ trace = <<>>
    /\ locals = NoLocals
    /\ result = NoResult

\* investment_cost = forecast_full.iloc[0,2]; roi_df = ...
RoiStage ==
    /\ pc = "ROI"
    /\ trace' = Append(trace, "ROI")
    /\ IF RoiError(forecast_df) = ""
       THEN /\ roi_df' = RoiDf(forecast_df)
            /\ pc' = "PACKAGE"
            /\ UNCHANGED <<outcome, error>>
       ELSE /\ Raise(RoiError(forecast_df))
            /\ UNCHANGED roi_df
    /\ UNCHANGED <<fn, series, threshold, show_vis, m, n_yrs_future, test_data,
                   train, test, steps, forecast_df, locals, result>>

RoiNext == RoiStage

RoiSpec == RoiInit /\ [][RoiNext]_vars

----------------------------------------------------------------------------
(* The workflow from the return of create_best_model on. create_best_model   *)
(* lets no run come this far (its call of auto_arima_model does not bind),   *)
(* so the start is every state that call would leave if it bound.            *)

\* ts_model.plot_diagnostics() (statsmodels): draws, or fails on a short series
ModelPerformanceErrors(model) == {"", "ValueError"}

\* plot of a series or frame column (pandas): draws, or fails when it is empty
PlotErrors(data) == IF data = <<>> THEN {"", "TypeError"} ELSE {""}

\* roi_final.name = zipcode_val.name.astype('str'): the column label has
\* astype when it is a numpy scalar and has none when it is a str
NameErrors == {"", "AttributeError"}

\* roi_final = roi_df.iloc[-1]
RoiFinal(roi) == roi[Len(roi)]

\* return forecast_full, roi_final, summary_train, diag_train, summary_full,
\*        diag_full, training_frcst, final_frcst
WorkflowReturn(l, forecast_full) ==
    <<forecast_full, l.roi_final, l.summary_train, l.diag_train, l.summary_full,
      l.diag_full, l.training_frcst, l.final_frcst>>

\* make_dict: the dictionary built from what the workflow returned
MakeDictSwapped(t) ==
    [forecasted_prices |-> t[1],
     ROI |-> t[2],
     model_metrics |-> [train |-> <<t[5], t[6]>>, full |-> <<t[3], t[4]>>],
     model_visuals |-> [train |-> t[8], full |-> t[7]]]

MakeDict(t) ==
    [forecasted_prices |-> t[1],
     ROI |-> t[2],
     model_metrics |-> [train |-> <<t[3], t[4]>>, full |-> <<t[5], t[6]>>],
     model_visuals |-> [train |-> t[7], full |-> t[8]]]

TailInit ==
    /\ pc = "FORECAST_VALIDATE"
    /\ fn \in Workflows
    /\ series \in SeriesSet
    /\ threshold \in (IF fn = "make_dict" THEN {DefaultThreshold} ELSE Thresholds)
    /\ show_vis \in BOOLEAN
    /\ m \in Ms
    /\ n_yrs_future \in (IF fn = "make_dict" THEN {Some(DefaultYrsFuture)}
                         ELSE {Some(k) : k \in 0..MaxYears})
    /\ test_data = NoSeries
    /\ \E sp \in TsSplit(series, threshold, show_vis) :
          /\ sp.status = "returned"
          /\ train = sp.train
          /\ test = sp.test
    /\ \E r \in CreateBestModelFit(train, m) :
          /\ r.status = "returned"
          /\ locals = [NoLocals EXCEPT !.searched = r.searched,
                                       !.auto_model_train = r.model,
                                       !.best_model_train = r.best_model]
    /\ steps = None
    /\ forecast_df = NoFrame
    /\ roi_df = <<>>
    /\ outcome = "none"
    /\ error = ""
    /\ trace = <<"SPLIT", "SELECT_AND_FIT">>
    /\ result = NoResult

\* summary_train, diag_train = model_performance(best_model_train)
\* forecast_train = forecast_and_ci(best_model_train, test)
\* training_frcst, _ = plot_forecast_ttf(train, test, forecast_train, ...)
ValidateStage ==
    /\ pc = "FORECAST_VALIDATE"
    /\ trace' = Append(trace, "FORECAST_VALIDATE")
    /\ \E pe \in ModelPerformanceErrors(locals.best_model_train),
          f \in ForecastAndCi(Some(test), None),
          ve \in PlotErrors(test) :
         IF pe # ""
         THEN Raise(pe) /\ UNCHANGED <<steps, locals>>
         ELSE IF f.status = "raised"
         THEN Raise(f.error) /\ steps' = f.steps /\ UNCHANGED locals
         ELSE IF ve # ""
         THEN Raise(ve) /\ steps' = f.steps /\ UNCHANGED locals
         ELSE /\ steps' = f.steps
              /\ locals' = [locals EXCEPT
                    !.summary_train = Summary(locals.best_model_train),
                    !.diag_train = Diagnostics(locals.best_model_train),
                    !.forecast_train_rows = Len(f.df.rows),
                    !.training_frcst = [plot |-> "plot_forecast_ttf", of |-> "train"]]
              /\ pc' = "REFIT"
              /\ UNCHANGED <<outcome, error>>
    /\ UNCHANGED <<fn, series, threshold, show_vis, m, n_yrs_future, test_data,
                   train, test, forecast_df, roi_df, result>>

\* best_model_full = tsa.SARIMAX(zipcode_val, order=auto_model_train.order,
\*     seasonal_order=auto_model_train.seasonal_order, ...).fit()
\* summary_full, diag_full = model_performance(best_model_full)
RefitStage ==
    /\ pc = "REFIT"
    /\ trace' = Append(trace, "REFIT")
    /\ \E fe \in FitErrors(series),
          pe \in ModelPerformanceErrors(locals.best_model_full) :
         IF fe # ""
         THEN Raise(fe) /\ UNCHANGED locals
         ELSE IF pe # ""
         THEN Raise(pe) /\ UNCHANGED locals
         ELSE /\ locals' = [locals EXCEPT
                    !.best_model_full = Sarimax(series, locals.auto_model_train),
                    !.summary_full = Summary(Sarimax(series, locals.auto_model_train)),
                    !.diag_full = Diagnostics(Sarimax(series, locals.auto_model_train))]
              /\ pc' = "FORECAST_FUTURE"
              /\ UNCHANGED <<outcome, error>>
    /\ UNCHANGED <<fn, series, threshold, show_vis, m, n_yrs_future, test_data,
                   train, test, steps, forecast_df, roi_df, result>>

\* forecast_full = forecast_and_ci(best_model_full, n_yrs_future = n_yrs_future)
\* final_frcst, _ = plot_forecast_final(zipcode_val, forecast_full, ...)
ForecastFutureStage ==
    /\ pc = "FORECAST_FUTURE"
    /\ trace' = Append(trace, "FORECAST_FUTURE")
    /\ \E f \in ForecastAndCi(NoSeries, n_yrs_future) :
         \E ve \in PlotErrors(f.df.rows) :
            IF f.status = "raised"
            THEN Raise(f.error) /\ steps' = f.steps /\ UNCHANGED <<forecast_df, locals>>
            ELSE IF ve # ""
            THEN Raise(ve) /\ steps' = f.steps /\ UNCHANGED <<forecast_df, locals>>
            ELSE /\ steps' = f.steps
                 /\ forecast_df' = f.df
                 /\ locals' = [locals EXCEPT
                       !.final_frcst = [plot |-> "plot_forecast_final", of |-> "full"]]
                 /\ pc' = "ROI"
                 /\ UNCHANGED <<outcome, error>>
    /\ UNCHANGED <<fn, series, threshold, show_vis, m, n_yrs_future, test_data,
                   train, test, roi_df, result>>

\* roi_final = roi_df.iloc[-1]; roi_final.name = ...; return ...
\* and, in make_dict, the dictionary built from the returned values
PackageStage ==
    /\ pc = "PACKAGE"
    /\ trace' = Append(trace, "PACKAGE")
    /\ \E ne \in NameErrors :
         IF ne # ""
         THEN Raise(ne) /\ UNCHANGED <<locals, result>>
         ELSE /\ locals' = [locals EXCEPT !.roi_final = RoiFinal(roi_df)]
              /\ result' = IF fn = "make_dict"
                           THEN [kind |-> "dict",
                                 value |-> MakeDict(WorkflowReturn(locals', forecast_df))]
                           ELSE [kind |-> "tuple",
                                 value |-> WorkflowReturn(locals', forecast_df)]
              /\ pc' = "done"
              /\ outcome' = "returned"
              /\ UNCHANGED error
    /\ UNCHANGED <<fn, series, threshold, show_vis, m, n_yrs_future, test_data,
                   train, test, steps, forecast_df, roi_df>>

TailNext ==
    \/ ValidateStage
    \/ RefitStage
    \/ ForecastFutureStage
    \/ RoiStage
    \/ PackageStage

TailSpec == TailInit /\ [][TailNext]_vars

----------------------------------------------------------------------------
(* Properties *)

\* ts_split has run, alone or as the first stage, and has returned or raised
SplitRan == (fn = "ts_split" /\ pc = "done") \/ (fn \in Workflows /\ Len(trace) >= 1)

SplitRaised ==
    \/ fn = "ts_split" /\ outcome = "raised"
    \/ fn \in Workflows /\ pc = "aborted" /\ Len(trace) = 1

SplitReturned == SplitRan /\ ~SplitRaised

\* C1: for a non-empty series and a threshold strictly between 0 and 1,
\* ts_split (without the plot) returns, and what it returns is a prefix and
\* the rest of the series: the lengths add up and train followed by test is
\* the series, element for element
TsSplitRoundTrip ==
    (SplitRan /\ series # <<>> /\ threshold > 0 /\ threshold < 100) =>
        /\ ~show_vis => SplitReturned
        /\ SplitReturned =>
              /\ Len(train) + Len(test) = Len(series)
              /\ train \o test = series
              /\ \A i \in 1..Len(train) : train[i] = series[i]
              /\ \A i \in 1..Len(test) : test[i] = series[Len(train) + i]

TsSplitRoundTripWitness ==
    /\ SplitReturned
    /\ Len(series) = 3
    /\ threshold = 50
    /\ series[1] # series[2]
    /\ Len(train) = 2
    /\ Len(test) = 1

\* c is the integer nearest to num / den, the even one of the two when num / den
\* lies half way between two integers
IsNearestTiesEven(c, num, den) ==
    /\ 2 * Abs(den * c - num) <= den
    /\ 2 * Abs(den * c - num) = den => c % 2 = 0

\* C2: the cut is round(len(series) * threshold), ties to the even integer;
\* train is series[0:cut] and test series[cut:]; 120 observations split at
\* 0.85 give 102 and 18
TsSplitCutIndex ==
    SplitReturned =>
        LET n == Len(series)
        IN  /\ \E c \in -(2 * n + 1)..(2 * n + 1) :
                  /\ IsNearestTiesEven(c, n * threshold, 100)
                  /\ LET k == IF c < 0 THEN Max(0, n + c) ELSE Min(c, n)
                     IN  /\ train = SubSeq(series, 1, k)
                         /\ test = SubSeq(series, k + 1, n)
                         /\ (0 <= c /\ c <= n) => Len(train) = c
            /\ (n = 120 /\ threshold = 85) => (Len(train) = 102 /\ Len(test) = 18)

TsSplitCutIndexWitness ==
    /\ SplitReturned
    /\ Len(series) = 120
    /\ threshold = 85
    /\ Len(train) = 102
    /\ Len(test) = 18

\* the run of the workflow is over
WorkflowOver == fn \in Workflows /\ pc \in {"done", "aborted"}

\* a library (pandas, pmdarima, statsmodels) turned the data down
LibraryRejected == error = "ValueError"

\* C3: a run of the workflow on a valid series (120 monthly observations,
\* threshold 0.85) that no library turns down ends with the result returned
\* and a forecast frame of 12 * n_yrs_future rows
WorkflowReachesPackage ==
    (WorkflowOver /\ Len(series) = 120 /\ threshold = 85 /\ ~show_vis
        /\ n_yrs_future.val >= 1 /\ ~LibraryRejected) =>
        /\ outcome = "returned"
        /\ trace = Stages
        /\ Len(forecast_df.rows) = MonthsPerYear * n_yrs_future.val

\* C4: forecast_and_ci asks for len(test_data) steps when test_data is given
\* (whatever n_yrs_future is) and for 12 * n_yrs_future steps when it is None,
\* and the frame it returns has that many rows and the columns
\* 'Lower CI', 'Upper CI', 'Forecast'
ForecastHorizon ==
    (fn = "forecast_and_ci" /\ outcome = "returned") =>
        LET h == IF ~test_data.none THEN Len(test_data.val)
                 ELSE MonthsPerYear * n_yrs_future.val
        IN  /\ ~test_data.none \/ ~n_yrs_future.none
            /\ steps = Some(h)
            /\ Len(forecast_df.rows) = h
            /\ forecast_df.columns = <<"Lower CI", "Upper CI", "Forecast">>
            /\ \A i \in 1..h : Len(forecast_df.rows[i]) = 3

ForecastHorizonWitness ==
    /\ fn = "forecast_and_ci"
    /\ outcome = "returned"
    /\ ~test_data.none
    /\ Len(test_data.val) = 3
    /\ n_yrs_future = Some(1)
    /\ Len(forecast_df.rows) = 3

\* the ROI lines have run and given a frame
RoiComputed == pc = "PACKAGE" /\ trace # <<>> /\ trace[Len(trace)] = "ROI"

IsPrefix(s, t) == Len(s) <= Len(t) /\ \A i \in 1..Len(s) : s[i] = t[i]

FailureAborts ==
    /\ []((fn \in Workflows /\ outcome = "raised") =>
            (pc = "aborted" /\ error # "" /\ forecast_df = NoFrame /\ roi_df = <<>>))
    /\ [][(fn \in Workflows /\ outcome = "raised") =>
            (pc' = pc /\ trace' = trace /\ outcome' = outcome)]_vars

FailureAbortsWitness ==
    /\ fn = "make_dict"
    /\ pc = "aborted"
    /\ outcome = "raised"
    /\ error = "TypeError"
    /\ trace = <<"SPLIT", "SELECT_AND_FIT">>

\* C9: ts_split raises when the series is empty or the threshold is not
\* strictly between 0 and 1
TsSplitRejectsBadInput ==
    (fn = "ts_split" /\ pc = "done"
        /\ (series = <<>> \/ threshold <= 0 \/ threshold >= 100)) =>
        outcome = "raised"

\* C10: what ts_split returns with show_vis=False for a non-empty series and a
\* threshold strictly between 0 and 1, alone or as the first stage of the
\* workflow, the same call with show_vis=True returns as well
ShowVisNoEffect ==
    (SplitRan /\ ~show_vis /\ series # <<>> /\ threshold > 0 /\ threshold < 100) =>
        \E r \in TsSplit(series, threshold, TRUE) :
            /\ ~SplitRaised
            /\ r.status = "returned"
            /\ r.train = train
            /\ r.test = test

OrderSearchedOnceOnTrain ==
    (WorkflowOver /\ Len(trace) >= 2 /\ ~LibraryRejected
        /\ train # <<>> /\ threshold > 0 /\ threshold < 100) =>
        /\ locals.searched = <<train>>
        /\ locals.best_model_train = Sarimax(train, locals.auto_model_train)
        /\ locals.best_model_full = Sarimax(series, locals.auto_model_train)
        /\ locals.auto_model_train \in ModelOrders(m)

====
